---- MODULE Spec2Model ----
(***************************************************************************)
(* Fragment reconstruction (main.reconstruct): URL strings whose unit is   *)
(* the token, the suffix tree over the fragments' suffixes, the traversal  *)
(* that fills the join array, and the backtracking stitch.                 *)
(*                                                                         *)
(* A raw string is a sequence of one-character strings.  Fragment ids and  *)
(* token positions are 0-based as in the source; the sequence that holds   *)
(* them is 1-based, so fragment f sits at position f + 1.                  *)
(***************************************************************************)
EXTENDS Integers, Sequences, FiniteSets, TLC

MIN_OVERLAP == 3

TERMINATOR == "$"

\* Python's None where it is a slice bound.
NoBound == -1

Min(a, b) == IF a <= b THEN a ELSE b

\* s[i:j] of a Python str, 0 <= i.
PySlice(s, i, j) == SubSeq(s, i + 1, Min(j, Len(s)))

\* str(n) of a fragment id.
Digits == <<"0", "1", "2", "3", "4", "5", "6", "7", "8", "9">>

RECURSIVE str(_)
str(n) == IF n < 10 THEN <<Digits[n + 1]>> ELSE str(n \div 10) \o <<Digits[(n % 10) + 1]>>

(***************************************************************************)
(* URLString                                                               *)
(***************************************************************************)

\* The loop with an escape one character long: a % takes three characters with it.
RECURSIVE scan_positions_long(_, _)
scan_positions_long(s, i) ==
    IF i >= Len(s) THEN <<>>
    ELSE <<i>> \o (IF s[i + 1] = "%" THEN scan_positions_long(s, i + 4)
                   ELSE IF s[i + 1] = TERMINATOR THEN <<>>
                   ELSE scan_positions_long(s, i + 1))

\* The loop with an escape one character short: a % takes one character with it.
RECURSIVE scan_positions_short(_, _)
scan_positions_short(s, i) ==
    IF i >= Len(s) THEN <<>>
    ELSE <<i>> \o (IF s[i + 1] = "%" THEN scan_positions_short(s, i + 2)
                   ELSE IF s[i + 1] = TERMINATOR THEN <<>>
                   ELSE scan_positions_short(s, i + 1))

\* The while loop of update_true_positions, from position i on.
RECURSIVE scan_positions(_, _)
scan_positions(s, i) ==
    IF i >= Len(s) THEN <<>>
    ELSE <<i>> \o (IF s[i + 1] = "%" THEN scan_positions(s, i + 3)
                   ELSE IF s[i + 1] = TERMINATOR THEN <<>>
                   ELSE scan_positions(s, i + 1))

update_true_positions(s) == scan_positions(s, 0) \o <<Len(s)>>

URLString(s) == [string |-> s, true_positions |-> update_true_positions(s)]

URLString_len(u) == Len(u.true_positions) - 1

\* u[key] for an integer key: the token at position key.
URLString_getitem(u, key) ==
    URLString(PySlice(u.string, u.true_positions[key + 1], u.true_positions[key + 2]))

\* u[start:stop]; a bound that is None or 0 is falsy and leaves that side open.
URLString_slice(u, start, stop) ==
    LET i == IF start = NoBound \/ start = 0 THEN 0 ELSE u.true_positions[start + 1]
        j == IF stop = NoBound \/ stop = 0 THEN Len(u.string) ELSE u.true_positions[stop + 1]
    IN  URLString(PySlice(u.string, i, j))

URLString_eq(u, v) == u.string = v.string

\* u + new_string, new_string a plain str.
URLString_add(u, new_string) == URLString(u.string \o new_string)

\* u + v, v a URLString.
URLString_concat(u, v) == URLString(u.string \o v.string)

\* join that appends the whole of join_string, the overlap included.
join_whole(u, join_string, overlap) == URLString(u.string \o join_string.string)

\* self.join(join_string, overlap): the new value of self.
join(u, join_string, overlap) ==
    URLString(u.string \o URLString_slice(join_string, overlap, NoBound).string)

(***************************************************************************)
(* URLSuffixTree.  The tree is an arena: node n is tree[n], the root is    *)
(* node 1, and a new node takes the next free position.  A node's children *)
(* are a dict, kept as the sequence of its items in insertion order.       *)
(***************************************************************************)

EMPTY_URL_STRING == URLString(<<>>)

\* identity of a node that ends no suffix.
NoIdentity == <<>>

ROOT == 1

DictHas(d, k) == \E x \in 1..Len(d) : d[x].key = k

DictGet(d, k) == d[CHOOSE x \in 1..Len(d) : d[x].key = k].node

\* d[k] = n: an existing key keeps its place, a new key goes last.
DictSet(d, k, n) ==
    IF DictHas(d, k)
    THEN [x \in 1..Len(d) |-> IF d[x].key = k THEN [key |-> k, node |-> n] ELSE d[x]]
    ELSE Append(d, [key |-> k, node |-> n])

URLSuffixTreeNode(string, identity) ==
    [string |-> string, identity |-> identity, children |-> <<>>]

\* URLSuffixTree(min_suffix_len): the root alone.
URLSuffixTree == <<URLSuffixTreeNode(EMPTY_URL_STRING, NoIdentity)>>

\* tree[n].split(split_point, new_back_string, new_identity)
split(tree, n, split_point, new_back_string, new_identity) ==
    LET self == tree[n]
        fresh == Len(tree) + 1
    IN  IF split_point <= 0
        THEN Append([tree EXCEPT ![n].children =
                        DictSet(self.children,
                                URLString_getitem(new_back_string, 0).string, fresh)],
                    URLSuffixTreeNode(new_back_string, new_identity))
        ELSE LET front_string == URLString_slice(self.string, NoBound, split_point)
                 old_back_string == URLString_slice(self.string, split_point, NoBound)
                 old_node == [string |-> old_back_string,
                              identity |-> self.identity,
                              children |-> self.children]
                 new_node == URLSuffixTreeNode(new_back_string, new_identity)
             IN  [tree EXCEPT ![n] =
                     [string |-> front_string,
                      identity |-> NoIdentity,
                      children |->
                         DictSet(DictSet(<<>>,
                                         URLString_getitem(old_back_string, 0).string,
                                         fresh),
                                 URLString_getitem(new_back_string, 0).string,
                                 fresh + 1)]]
                 \o <<old_node, new_node>>

\* The for loop of insert from token c on, at position index of cur_node's string.
RECURSIVE insert_walk(_, _, _, _, _, _)
insert_walk(tree, suffix, c, cur_node, index, str_id) ==
    IF c >= URLString_len(suffix) THEN tree
    ELSE LET tok == URLString_getitem(suffix, c)
             exhausted == index = URLString_len(tree[cur_node].string)
             found == exhausted /\ DictHas(tree[cur_node].children, tok.string)
             node1 == IF found THEN DictGet(tree[cur_node].children, tok.string)
                      ELSE cur_node
             index1 == IF found THEN 0 ELSE IF exhausted THEN -1 ELSE index
         IN  IF index1 = -1
                \/ ~URLString_eq(tok, URLString_getitem(tree[node1].string, index1))
             THEN split(tree, node1, index1, URLString_slice(suffix, c, NoBound), str_id)
             ELSE insert_walk(tree, suffix, c + 1, node1, index1 + 1, str_id)

\* URLSuffixTree.insert(string, str_id): the string and every suffix of it.
RECURSIVE insert(_, _, _)
insert(tree, string, str_id) ==
    IF URLString_len(string) < MIN_OVERLAP THEN tree
    ELSE LET suffix == URLString_add(string, <<TERMINATOR>> \o str(str_id[1]))
         IN  insert(insert_walk(tree, suffix, 0, ROOT, 0, str_id),
                    URLString_slice(string, 1, NoBound),
                    <<str_id[1], str_id[2] + 1>>)

(***************************************************************************)
(* dfs_join.  An entry of join_array is [filled, list]: filled is FALSE    *)
(* while the entry still holds the integer 0 it was created with.           *)
(***************************************************************************)

Unfilled == [filled |-> FALSE, list |-> <<>>]

\* The push without the test of the suffix id: a whole fragment is pushed as well.
RECURSIVE pushed_all(_, _, _, _)
pushed_all(tree, term, t, string) ==
    IF t > Len(term) THEN <<>>
    ELSE <<<<tree[term[t].node].identity[1], string>>>> \o pushed_all(tree, term, t + 1, string)

\* The entries pushed at a node: one for each terminator child that is a proper suffix.
RECURSIVE pushed(_, _, _, _)
pushed(tree, term, t, string) ==
    IF t > Len(term) THEN <<>>
    ELSE (IF tree[term[t].node].identity[2] # 0
          THEN <<<<tree[term[t].node].identity[1], string>>>>
          ELSE <<>>) \o pushed(tree, term, t + 1, string)

RECURSIVE dfs_join(_, _, _, _, _)
RECURSIVE dfs_children(_, _, _, _, _, _)
dfs_join(tree, node, string, match_stack, join_array) ==
    LET nd == tree[node] IN
    IF nd.identity # NoIdentity /\ nd.identity[2] = 0
    THEN [join_array EXCEPT ![nd.identity[1] + 1] =
             [filled |-> TRUE, list |-> match_stack]]
    ELSE LET term == SelectSeq(nd.children, LAMBDA kv : kv.key[1] = TERMINATOR)
             pushes == IF term # <<>> /\ URLString_len(string) >= MIN_OVERLAP
                       THEN pushed(tree, term, 1, string)
                       ELSE <<>>
         IN  dfs_children(tree, nd.children, 1, string, match_stack \o pushes, join_array)

\* The recursive call to each child, from child k on.
dfs_children(tree, children, k, string, match_stack, join_array) ==
    IF k > Len(children) THEN join_array
    ELSE dfs_children(tree, children, k + 1, string, match_stack,
                      dfs_join(tree, children[k].node,
                               URLString_concat(string, tree[children[k].node].string),
                               match_stack, join_array))

(***************************************************************************)
(* to_convention_text: urllib.parse.unquote_plus.                          *)
(***************************************************************************)

HexDigits == <<"0", "1", "2", "3", "4", "5", "6", "7", "8", "9",
               "A", "B", "C", "D", "E", "F", "a", "b", "c", "d", "e", "f">>

IsHex(ch) == \E x \in 1..Len(HexDigits) : HexDigits[x] = ch

HexVal(ch) ==
    LET x == CHOOSE y \in 1..Len(HexDigits) : HexDigits[y] = ch
    IN  IF x <= 16 THEN x - 1 ELSE x - 7

\* The characters of the digits (codes 48 to 57) and of the letters (65 to 90, 97 to 122).
Letters == <<"A", "B", "C", "D", "E", "F", "G", "H", "I", "J", "K", "L", "M",
             "N", "O", "P", "Q", "R", "S", "T", "U", "V", "W", "X", "Y", "Z">>

LowerLetters == <<"a", "b", "c", "d", "e", "f", "g", "h", "i", "j", "k", "l", "m",
                  "n", "o", "p", "q", "r", "s", "t", "u", "v", "w", "x", "y", "z">>

\* The character of a byte; a byte that is no digit and no letter is not told apart.
chr(code) ==
    IF code >= 48 /\ code <= 57 THEN Digits[code - 47]
    ELSE IF code >= 65 /\ code <= 90 THEN Letters[code - 64]
    ELSE IF code >= 97 /\ code <= 122 THEN LowerLetters[code - 96]
    ELSE "other"

RECURSIVE unquote_plus(_)
unquote_plus(s) ==
    IF s = <<>> THEN <<>>
    ELSE IF s[1] = "+" THEN <<" ">> \o unquote_plus(Tail(s))
    ELSE IF s[1] = "%" /\ Len(s) >= 3 /\ IsHex(s[2]) /\ IsHex(s[3])
         THEN <<chr(16 * HexVal(s[2]) + HexVal(s[3]))>> \o unquote_plus(SubSeq(s, 4, Len(s)))
    ELSE <<s[1]>> \o unquote_plus(Tail(s))

to_convention_text(u) == unquote_plus(u.string)

(***************************************************************************)
(* The value a call of stitch returns: None, or a text.                    *)
(***************************************************************************)

NoResult == [ok |-> FALSE, text |-> <<>>]

Text(t) == [ok |-> TRUE, text |-> t]

\* `if result:` -- None and the empty string are falsy.
Truthy(r) == r.ok /\ r.text # <<>>

(***************************************************************************)
(* The stitch attempt (the base case of stitch).  stitch_attempt is a list *)
(* of references: objs[f + 1] is the object entry f refers to and          *)
(* heap[o] is the value of object o.                                       *)
(***************************************************************************)

\* list.index(v) as a 0-based position, -1 for ValueError.
index_of(list, v) ==
    IF \E x \in 1..Len(list) : list[x] = v
    THEN (CHOOSE x \in 1..Len(list) : list[x] = v /\ \A y \in 1..(x - 1) : list[y] # v) - 1
    ELSE -1

\* The while loop of the attempt, entered with cur_index.
RECURSIVE stitch_trace(_, _, _, _, _)
stitch_trace(objs, heap, cur_index, stitchings, overlaps) ==
    LET cur == index_of(stitchings, cur_index)
        next == index_of(stitchings, cur)
    IN  IF cur = -1 \/ next = -1 THEN [objs |-> objs, heap |-> heap]
        ELSE stitch_trace([objs EXCEPT ![next + 1] = objs[cur + 1]],
                          [heap EXCEPT ![objs[cur + 1]] =
                              join(heap[objs[cur + 1]], heap[objs[next + 1]],
                                   overlaps[next + 1])],
                          cur, stitchings, overlaps)

\* The attempt without its test: whatever the trace merged is taken.
count_unchecked(objs, heap) == TRUE

\* stitch_attempt.count(stitch_attempt[0]) == len(stitch_attempt)
count_all_equal(objs, heap) ==
    Cardinality({x \in 1..Len(objs) : URLString_eq(heap[objs[x]], heap[objs[1]])}) = Len(objs)

\* stitch(...) when index == len(join_array)
stitch_attempt(stitchings, overlaps, fragments) ==
    LET start == [x \in 1..Len(fragments) |-> x]
        done == stitch_trace(start, fragments, -1, stitchings, overlaps)
    IN  IF count_all_equal(done.objs, done.heap)
        THEN Text(to_convention_text(done.heap[done.objs[1]]))
        ELSE NoResult

(***************************************************************************)
(* The inputs: the lines of the file object.                               *)
(***************************************************************************)

MaxFrags == 3

MaxLen == 4

\* The tokens fragments are made of: a plain character and an escape of the same character.
Alphabet == {<<"A">>, <<"%", "4", "1">>}

RECURSIVE Words(_)
Words(n) == IF n = 0 THEN {<<>>} ELSE {w \o t : w \in Words(n - 1), t \in Alphabet}

WordsUpTo(n) == UNION {Words(k) : k \in 0..n}

Line(raw) == raw \o <<"\n">>

\* Up to MaxFrags fragments of up to MaxLen tokens, and one fragment fewer of up to
\* one token more.
BoundedInputs ==
    UNION {[1..k -> {Line(w) : w \in WordsUpTo(MaxLen)}] : k \in 0..MaxFrags}
    \cup UNION {[1..k -> {Line(w) : w \in WordsUpTo(MaxLen + 1)}] : k \in 0..(MaxFrags - 1)}

Scenario1 ==
    <<Line(<<"A", "B", "C", "D", "E", "F">>),
      Line(<<"C", "D", "E", "F", "G", "H">>),
      Line(<<"G", "H", "I", "J", "K", "L">>)>>

Scenario3 ==
    <<Line(<<"A", "B", "%", "4", "1", "C">>),
      Line(<<"C", "%", "4", "1", "C", "D", "E">>)>>

\* One fragment with an escape that is cut short or is not hexadecimal.
MalformedUnits ==
    {<<"%">>, <<"%", "4">>, <<"%", "G", "1">>, <<"%", "4", "G">>, <<"%", "%", "4", "1">>}

MalformedInputs ==
    {<<Line(w \o m)>> : w \in WordsUpTo(MIN_OVERLAP - 1), m \in MalformedUnits}

Inputs == BoundedInputs \cup {Scenario1, Scenario3} \cup MalformedInputs

(***************************************************************************)
(* reconstruct                                                             *)
(***************************************************************************)

VARIABLES
    file_object,      \* the lines still to be read, as given
    pc,               \* where reconstruct is
    fragments,        \* the URLStrings of the lines
    suffix_tree,      \* the arena of the tree's nodes
    join_array,       \* filled by dfs_join
    j,                \* the forced head of the else branch; -1 in the if branch
    join_array_copy,  \* the join_array the running stitch was called with
    search, seen_array, stitchings, overlaps,
    stack,            \* the loop counter i of every active call of stitch, outermost first
    returning,        \* the innermost call was just returned None by its callee
    result

vars == <<file_object, pc, fragments, suffix_tree, join_array, j, join_array_copy,
          search, seen_array, stitchings, overlaps, stack, returning, result>>

Whitespace == {" ", "\t", "\n", "\r"}

RECURSIVE rstrip(_)
rstrip(s) ==
    IF s # <<>> /\ s[Len(s)] \in Whitespace THEN rstrip(SubSeq(s, 1, Len(s) - 1)) ELSE s

\* j before Step 3.
Unset == -2

Init ==
    /\ file_object \in Inputs
    /\ pc = "step1"
    /\ fragments = <<>>
    /\ suffix_tree = URLSuffixTree
    /\ join_array = <<>>
    /\ j = Unset
    /\ join_array_copy = <<>>
    /\ search = <<>>
    /\ seen_array = <<>>
    /\ stitchings = <<>>
    /\ overlaps = <<>>
    /\ stack = <<>>
    /\ returning = FALSE
    /\ result = NoResult

\* Step 1, the loop over the lines from line i on.
RECURSIVE read_lines(_, _, _, _)
read_lines(lines, i, frags, tree) ==
    IF i >= Len(lines) THEN [fragments |-> frags, suffix_tree |-> tree]
    ELSE LET frag == URLString(rstrip(lines[i + 1]))
         IN  read_lines(lines, i + 1, Append(frags, frag),
                        insert(tree, URLString(frag.string), <<i, 0>>))

Step1 ==
    /\ pc = "step1"
    /\ LET built == read_lines(file_object, 0, <<>>, suffix_tree)
       IN  /\ fragments' = built.fragments
           /\ suffix_tree' = built.suffix_tree
    /\ pc' = "step2"
    /\ UNCHANGED <<file_object, join_array, j, join_array_copy, search, seen_array,
                   stitchings, overlaps, stack, returning, result>>

Step2 ==
    /\ pc = "step2"
    /\ join_array' = dfs_join(suffix_tree, ROOT, suffix_tree[ROOT].string, <<>>,
                              [x \in 1..Len(fragments) |-> Unfilled])
    /\ pc' = "step3"
    /\ UNCHANGED <<file_object, fragments, suffix_tree, j, join_array_copy, search,
                   seen_array, stitchings, overlaps, stack, returning, result>>

n == Len(fragments)

\* search.sort(key=lambda x: len(ja[x])) of range(n): a stable sort.
sorted_search(ja) ==
    LET before(x, y) == \/ Len(ja[x + 1].list) < Len(ja[y + 1].list)
                        \/ Len(ja[x + 1].list) = Len(ja[y + 1].list) /\ x < y
        rank(y) == Cardinality({x \in 0..(Len(ja) - 1) : before(x, y)})
    IN  [p \in 1..Len(ja) |-> CHOOSE y \in 0..(Len(ja) - 1) : rank(y) = p - 1]

HasUnfilled == \E x \in 1..Len(join_array) : ~join_array[x].filled

HasEmpty == \E x \in 1..Len(join_array) : join_array[x].list = <<>>

\* The call of stitch on ja from reconstruct.
CallStitch(ja) ==
    /\ join_array_copy' = ja
    /\ search' = sorted_search(ja)
    /\ seen_array' = [x \in 1..n |-> 0]
    /\ stitchings' = [x \in 1..n |-> 0]
    /\ overlaps' = [x \in 1..n |-> 0]
    /\ stack' = <<0>>
    /\ returning' = FALSE
    /\ pc' = "stitch"

\* len(x) of an entry that is still the integer 0.
RaiseTypeError ==
    /\ pc = "step3"
    /\ HasUnfilled
    /\ pc' = "TypeError"
    /\ UNCHANGED <<file_object, fragments, suffix_tree, join_array, j, join_array_copy,
                   search, seen_array, stitchings, overlaps, stack, returning, result>>

\* The if branch: some entry has no match.
StitchDirect ==
    /\ pc = "step3"
    /\ ~HasUnfilled
    /\ HasEmpty
    /\ j' = -1
    /\ CallStitch(join_array)
    /\ UNCHANGED <<file_object, fragments, suffix_tree, join_array, result>>

\* The else branch with no fragment: the loop has no turn and result is never bound.
RaiseUnboundLocalError ==
    /\ pc = "step3"
    /\ ~HasUnfilled
    /\ ~HasEmpty
    /\ n = 0
    /\ pc' = "UnboundLocalError"
    /\ UNCHANGED <<file_object, fragments, suffix_tree, join_array, j, join_array_copy,
                   search, seen_array, stitchings, overlaps, stack, returning, result>>

ForcedFirst == pc = "step3" /\ ~HasUnfilled /\ ~HasEmpty /\ n > 0

\* The loop without its break: the next head is forced after a success too.
ForcedAgain_nobreak == pc = "searched" /\ j >= 0 /\ j + 1 < Len(fragments)

ForcedAgain == pc = "searched" /\ j >= 0 /\ ~Truthy(result) /\ j + 1 < n

\* One turn of the else branch's loop: fragment j' is made the head.
StitchForced ==
    /\ ForcedFirst \/ ForcedAgain
    /\ j' = IF pc = "step3" THEN 0 ELSE j + 1
    /\ CallStitch([join_array EXCEPT ![j' + 1] = [filled |-> TRUE, list |-> <<>>]])
    /\ UNCHANGED <<file_object, fragments, suffix_tree, join_array, result>>

\* print(result); return result
Return ==
    /\ pc = "searched"
    /\ j = -1 \/ Truthy(result) \/ j + 1 >= n
    /\ pc' = "done"
    /\ UNCHANGED <<file_object, fragments, suffix_tree, join_array, j, join_array_copy,
                   search, seen_array, stitchings, overlaps, stack, returning, result>>

(***************************************************************************)
(* stitch, one step at a time.  The innermost active call is the last      *)
(* entry of stack; its argument index is the number of calls below it.     *)
(***************************************************************************)

index == Len(stack) - 1

\* join_array[search[index]] of the innermost call.
cur_list == join_array_copy[search[index + 1] + 1].list

\* The matches read from the front: the smallest overlap first.
cur_match_front ==
    join_array_copy[search[Len(stack)] + 1].list[stack[Len(stack)] + 1]

\* join_array[search[index]][-(i+1)] of the innermost call.
cur_match == cur_list[Len(cur_list) - stack[Len(stack)]]

Pop(st) == SubSeq(st, 1, Len(st) - 1)

InLoop == pc = "stitch" /\ ~returning /\ index < n /\ cur_list # <<>>

\* index == len(join_array): the attempt; a truthy result goes up through every caller.
StitchAttempt ==
    /\ pc = "stitch"
    /\ ~returning
    /\ index = n
    /\ LET r == stitch_attempt(stitchings, overlaps, fragments)
       IN  IF Truthy(r)
           THEN /\ result' = r
                /\ stack' = <<>>
                /\ pc' = "searched"
                /\ returning' = FALSE
           ELSE /\ stack' = Pop(stack)
                /\ returning' = TRUE
                /\ UNCHANGED <<result, pc>>
    /\ UNCHANGED <<file_object, fragments, suffix_tree, join_array, j, join_array_copy,
                   search, seen_array, stitchings, overlaps>>

\* An empty list: the fragment is the start of the full string.
StitchHead ==
    /\ pc = "stitch"
    /\ ~returning
    /\ index < n
    /\ cur_list = <<>>
    /\ stitchings' = [stitchings EXCEPT ![search[index + 1] + 1] = -1]
    /\ stack' = Append(stack, 0)
    /\ UNCHANGED <<file_object, pc, fragments, suffix_tree, join_array, j,
                   join_array_copy, search, seen_array, overlaps, returning, result>>

\* A match whose fragment is already assigned: continue.
StitchSkip ==
    /\ InLoop
    /\ stack[Len(stack)] < Len(cur_list)
    /\ seen_array[cur_match[1] + 1] = 1
    /\ stack' = [stack EXCEPT ![Len(stack)] = @ + 1]
    /\ UNCHANGED <<file_object, pc, fragments, suffix_tree, join_array, j,
                   join_array_copy, search, seen_array, stitchings, overlaps,
                   returning, result>>

\* Assign the match, flag its fragment as seen and call stitch for the next fragment.
StitchTry ==
    /\ InLoop
    /\ stack[Len(stack)] < Len(cur_list)
    /\ seen_array[cur_match[1] + 1] # 1
    /\ stitchings' = [stitchings EXCEPT ![search[index + 1] + 1] = cur_match[1]]
    /\ overlaps' = [overlaps EXCEPT ![search[index + 1] + 1] = URLString_len(cur_match[2])]
    /\ seen_array' = [seen_array EXCEPT ![cur_match[1] + 1] = 1]
    /\ stack' = Append(stack, 0)
    /\ UNCHANGED <<file_object, pc, fragments, suffix_tree, join_array, j,
                   join_array_copy, search, returning, result>>

\* The return from a failed call that leaves the flag set.
StitchUndo_keep ==
    /\ pc = "stitch"
    /\ returning
    /\ join_array_copy[search[Len(stack)] + 1].list # <<>>
    /\ stack' = [stack EXCEPT ![Len(stack)] = @ + 1]
    /\ returning' = FALSE
    /\ UNCHANGED <<file_object, pc, fragments, suffix_tree, join_array, j,
                   join_array_copy, search, seen_array, stitchings, overlaps, result>>

\* The call made by the loop returned None: unflag and go on with the next match.
StitchUndo ==
    /\ pc = "stitch"
    /\ returning
    /\ cur_list # <<>>
    /\ seen_array' = [seen_array EXCEPT ![cur_match[1] + 1] = 0]
    /\ stack' = [stack EXCEPT ![Len(stack)] = @ + 1]
    /\ returning' = FALSE
    /\ UNCHANGED <<file_object, pc, fragments, suffix_tree, join_array, j,
                   join_array_copy, search, stitchings, overlaps, result>>

LoopExhausted == InLoop /\ stack[Len(stack)] >= Len(cur_list)

HeadFailed == pc = "stitch" /\ returning /\ cur_list = <<>>

\* The call falls off its end and returns None, to its caller or to reconstruct.
StitchReturnNone ==
    /\ LoopExhausted \/ HeadFailed
    /\ stack' = Pop(stack)
    /\ IF Len(stack) = 1
       THEN /\ result' = NoResult
            /\ pc' = "searched"
            /\ returning' = FALSE
       ELSE /\ returning' = TRUE
            /\ UNCHANGED <<result, pc>>
    /\ UNCHANGED <<file_object, fragments, suffix_tree, join_array, j, join_array_copy,
                   search, seen_array, stitchings, overlaps>>

Next ==
    \/ Step1
    \/ Step2
    \/ RaiseTypeError
    \/ StitchDirect
    \/ RaiseUnboundLocalError
    \/ StitchForced
    \/ StitchAttempt
    \/ StitchHead
    \/ StitchSkip
    \/ StitchTry
    \/ StitchUndo
    \/ StitchReturnNone
    \/ Return

Spec == Init /\ [][Next]_vars

(***************************************************************************)
(* What the claims speak of, stated from the fragments alone.              *)
(***************************************************************************)

Terminal == {"done", "TypeError", "UnboundLocalError"}

FragIds == 0..(n - 1)

\* The tokens of a URLString, each as its raw text.
TokensOf(u) == [k \in 1..URLString_len(u) |-> URLString_getitem(u, k - 1).string]

IsPrefix(p, w) == Len(p) <= Len(w) /\ SubSeq(w, 1, Len(p)) = p

SuffixFrom(w, off) == SubSeq(w, off + 1, Len(w))

RECURSIVE Flatten(_)
Flatten(toks) == IF toks = <<>> THEN <<>> ELSE toks[1] \o Flatten(Tail(toks))

\* The pairs (g, p): p a suffix of g from a nonzero offset, of at least MIN_OVERLAP
\* tokens, and a prefix of f.
ExpectedMatches(f) ==
    LET wf == TokensOf(fragments[f + 1])
        from(g) == LET w == TokensOf(fragments[g + 1])
                   IN  {<<g, Flatten(SuffixFrom(w, off))>> :
                           off \in {o \in 1..(Len(w) - MIN_OVERLAP) :
                                       IsPrefix(SuffixFrom(w, o), wf)}}
    IN  UNION {from(g) : g \in FragIds}

ListedMatches(f) ==
    {<<join_array[f + 1].list[x][1], join_array[f + 1].list[x][2].string>> :
        x \in 1..Len(join_array[f + 1].list)}

\* C7: when dfs_join has run from the root over the tree of all the fragments, the
\* list of every fragment of at least MIN_OVERLAP tokens holds exactly the pairs (g, p)
\* with p a suffix of g from a nonzero offset, of at least MIN_OVERLAP tokens, that is
\* a prefix of the fragment; each pair is listed once.
C7_CandidateListExact ==
    pc = "step3" =>
        \A f \in FragIds :
            URLString_len(fragments[f + 1]) >= MIN_OVERLAP =>
                /\ join_array[f + 1].filled
                /\ ListedMatches(f) = ExpectedMatches(f)
                /\ Len(join_array[f + 1].list) = Cardinality(ExpectedMatches(f))
                /\ \A x \in 1..Len(join_array[f + 1].list) :
                       URLString_len(join_array[f + 1].list[x][2]) >= MIN_OVERLAP

\* Two fragments are listed for one fragment, one of them the fragment itself, while
\* another fragment has no match.
C7_Witness ==
    /\ pc = "step3"
    /\ \E f, g, h \in FragIds :
          /\ f # g
          /\ \E e \in ListedMatches(f) : e[1] = g
          /\ \E e \in ListedMatches(f) : e[1] = f
          /\ join_array[h + 1].filled
          /\ join_array[h + 1].list = <<>>

(***************************************************************************)
(* The search, stated from the lists alone.                                *)
(***************************************************************************)

\* An assignment gives a fragment with an empty list 0 (it is a head) and any other
\* fragment a position of its list; a[f + 1] is the choice of fragment f.
RECURSIVE Assignments(_, _)
Assignments(ja, k) ==
    IF k = 0 THEN {<<>>}
    ELSE {Append(a, c) : a \in Assignments(ja, k - 1),
                         c \in IF ja[k].list = <<>> THEN {0} ELSE 1..Len(ja[k].list)}

StitchingsOf(ja, a) ==
    [x \in 1..Len(ja) |-> IF a[x] = 0 THEN -1 ELSE ja[x].list[a[x]][1]]

OverlapsOf(ja, a) ==
    [x \in 1..Len(ja) |-> IF a[x] = 0 THEN 0 ELSE URLString_len(ja[x].list[a[x]][2])]

NoSharedPredecessor(st) ==
    \A x, y \in 1..Len(st) : x # y /\ st[x] # -1 => st[x] # st[y]

PassesCheck(ja, a) ==
    Truthy(stitch_attempt(StitchingsOf(ja, a), OverlapsOf(ja, a), fragments))

ValidAssignments(ja) ==
    {a \in Assignments(ja, Len(ja)) :
        NoSharedPredecessor(StitchingsOf(ja, a)) /\ PassesCheck(ja, a)}

\* Fragment x comes before fragment y in the search: fewer matches first, and the
\* earlier fragment first among equals.
Precedes(ja, x, y) ==
    \/ Len(ja[x].list) < Len(ja[y].list)
    \/ Len(ja[x].list) = Len(ja[y].list) /\ x < y

\* Assignment a is tried before assignment b: at the first fragment of the search
\* where they differ, a takes the match nearer the end of the list.
TriedBefore(ja, a, b) ==
    \E x \in 1..Len(ja) :
        /\ a[x] > b[x]
        /\ \A y \in 1..Len(ja) : Precedes(ja, y, x) => a[y] = b[y]

SearchOutcome(ja) ==
    LET valid == ValidAssignments(ja)
    IN  IF valid = {} THEN NoResult
        ELSE LET first == CHOOSE a \in valid :
                              \A b \in valid : b # a => TriedBefore(ja, a, b)
             IN  stitch_attempt(StitchingsOf(ja, first), OverlapsOf(ja, first), fragments)

\* The matches of every list are in order of overlap, the smallest first.
ListsByOverlap(ja) ==
    \A x \in 1..Len(ja) : \A p, q \in 1..Len(ja[x].list) :
        p < q => URLString_len(ja[x].list[p][2]) <= URLString_len(ja[x].list[q][2])

\* C9: a call of stitch from reconstruct returns None only if no assignment gives
\* every fragment with an empty list no predecessor and every other fragment a match
\* of its list, uses no fragment as predecessor twice and passes the attempt;
\* otherwise it returns the text of the first such assignment, fragments taken by
\* fewest matches first and matches by largest overlap first.
C9_SearchComplete ==
    pc = "searched" =>
        /\ result = SearchOutcome(join_array_copy)
        /\ ListsByOverlap(join_array_copy)

\* A search ended with a text although an assignment tried earlier had failed, and
\* one fragment had matches of two different overlaps.
C9_Witness ==
    /\ pc = "searched"
    /\ Truthy(result)
    /\ \E a \in Assignments(join_array_copy, n) :
          /\ ~PassesCheck(join_array_copy, a)
          /\ NoSharedPredecessor(StitchingsOf(join_array_copy, a))
          /\ TriedBefore(join_array_copy, a, [x \in 1..n |-> IF stitchings[x] = -1 THEN 0
               ELSE CHOOSE c \in 1..Len(join_array_copy[x].list) :
                        /\ join_array_copy[x].list[c][1] = stitchings[x]
                        /\ URLString_len(join_array_copy[x].list[c][2]) = overlaps[x]])
    /\ \E x \in 1..n : \E p, q \in 1..Len(join_array_copy[x].list) :
          URLString_len(join_array_copy[x].list[p][2])
              < URLString_len(join_array_copy[x].list[q][2])

\* The list stitch is called with when fragment k is made the head.
ForcedHead(k) == [join_array EXCEPT ![k + 1] = [filled |-> TRUE, list |-> <<>>]]

C8_State ==
    /\ pc \in {"stitch", "searched", "done"} =>
          /\ j = -1 <=> HasEmpty
          /\ j = -1 => join_array_copy = join_array
          /\ j # -1 => j \in FragIds /\ join_array_copy = ForcedHead(j)
    /\ pc = "done" /\ j = -1 => result = SearchOutcome(join_array)
    /\ pc = "done" /\ j # -1 =>
          /\ result = SearchOutcome(ForcedHead(j))
          /\ \A k \in 0..(j - 1) : ~Truthy(SearchOutcome(ForcedHead(k)))
          /\ ~Truthy(result) => j = n - 1

C8_Step ==
    j' # j =>
        \/ j = Unset /\ j' \in {-1, 0}
        \/ j >= 0 /\ j' = j + 1 /\ pc = "searched" /\ ~Truthy(result)

\* C8: heads are forced exactly when no fragment has an empty list; they are forced
\* one at a time in ascending fragment index, only that list emptied; the result
\* returned is that of the lowest forced head whose search succeeds, and no later
\* head is tried; when some fragment has an empty list there is one search on the
\* lists as the traversal left them.
C8_ForcedHeadFallback == [](C8_State) /\ [][C8_Step]_vars

\* A forced head failed, a later one succeeded, and a fragment after it was never tried.
C8_Witness ==
    /\ pc = "done"
    /\ j >= 1
    /\ j < n - 1
    /\ Truthy(result)

(***************************************************************************)
(* The markers of the search.                                              *)
(***************************************************************************)

\* The fragments assigned on the current branch: those of the calls that have made
\* their call, the innermost included once its callee has returned.
Assigned == {search[d] : d \in 1..(Len(stack) - (IF returning THEN 0 ELSE 1))}

\* The assigned fragments whose chosen predecessor is g.
UsersOf(g) ==
    {f \in Assigned : join_array_copy[f + 1].list # <<>> /\ stitchings[f + 1] = g}

\* C10: at every point of the search the marker of g is set exactly when one fragment
\* assigned on the current branch has g as its predecessor, and never do two have it.
C10_PredecessorUnique ==
    pc = "stitch" =>
        \A g \in FragIds :
            /\ seen_array[g + 1] \in {0, 1}
            /\ Cardinality(UsersOf(g)) <= 1
            /\ seen_array[g + 1] = 1 <=> Cardinality(UsersOf(g)) = 1

\* A branch has failed and been undone, and the search goes on below two assigned
\* fragments with a marker still set.
C10_Witness ==
    /\ pc = "stitch"
    /\ ~returning
    /\ Len(stack) >= 2
    /\ stack[Len(stack)] >= 1
    /\ \E g \in FragIds : seen_array[g + 1] = 1
    /\ \E g \in FragIds : seen_array[g + 1] = 0 /\ g \in {stitchings[x] : x \in 1..n}

(***************************************************************************)
(* The trace of a successful attempt.                                      *)
(***************************************************************************)

\* The fragments the trace reaches after cur, following "names cur as predecessor".
RECURSIVE TraceFrom(_, _, _)
TraceFrom(st, cur, acc) ==
    LET nxt == index_of(st, cur)
    IN  IF nxt = -1 \/ nxt \in acc THEN acc ELSE TraceFrom(st, nxt, acc \cup {nxt})

Visited(st) == TraceFrom(st, -1, {})

\* C2: whenever the attempt reports success, the trace from the fragment without
\* predecessor has visited every fragment.
C2_ChainTotality ==
    pc = "searched" /\ Truthy(result) => Visited(stitchings) = FragIds

(***************************************************************************)
(* Escapes.                                                                *)
(***************************************************************************)

\* Some % is followed by fewer than two characters, or by one that is no hex digit.
Malformed(raw) ==
    \E x \in 1..Len(raw) :
        /\ raw[x] = "%"
        /\ \/ x + 2 > Len(raw)
           \/ ~IsHex(raw[x + 1])
           \/ ~IsHex(raw[x + 2])

HasTerminator(raw) == \E x \in 1..Len(raw) : raw[x] = TERMINATOR

WellFormedInput ==
    \A x \in 1..Len(file_object) :
        ~Malformed(rstrip(file_object[x])) /\ ~HasTerminator(file_object[x])

\* C3: on fragments with well-formed escapes and no terminator, whatever their number
\* and their lengths, reconstruct never ends in an error.
C3_AlwaysReturns ==
    WellFormedInput => pc \notin {"TypeError", "UnboundLocalError"}

\* C4 as stated: a fragment with a malformed escape ends the run in a MalformedToken
\* error when it is constructed.
C4_MalformedRejected ==
    pc # "step1" /\ (\E x \in 1..Len(file_object) : Malformed(rstrip(file_object[x])))
        => pc = "MalformedTokenError"

\* Every token is one character, except that a % takes the two characters after it
\* as far as the string goes.
TokenTable(u) ==
    /\ u.true_positions[Len(u.true_positions)] = Len(u.string)
    /\ u.string # <<>> => u.true_positions[1] = 0
    /\ \A k \in 1..(Len(u.true_positions) - 1) :
          u.true_positions[k + 1] =
              IF u.string[u.true_positions[k] + 1] = "%"
              THEN Min(u.true_positions[k] + 3, Len(u.string))
              ELSE u.true_positions[k] + 1

\* C4, amended: a fragment with a malformed escape is constructed like any other; its
\* % starts a token that takes the two characters after it, whatever they are, as
\* far as the string goes, and the run goes on.
C4_MalformedAccepted ==
    pc # "step1" =>
        /\ Len(fragments) = Len(file_object)
        /\ \A x \in 1..Len(file_object) :
              Malformed(rstrip(file_object[x])) =>
                  /\ fragments[x].string = rstrip(file_object[x])
                  /\ TokenTable(fragments[x])
        /\ pc # "MalformedTokenError"

\* A fragment that ends inside an escape has been constructed, with the cut escape
\* as its last token.
C4_Witness ==
    /\ pc = "step2"
    /\ \E x \in 1..Len(fragments) :
          LET u == fragments[x]
          IN  /\ Malformed(u.string)
              /\ URLString_len(u) >= MIN_OVERLAP
              /\ URLString_getitem(u, URLString_len(u) - 1).string = <<"%", "4">>

(***************************************************************************)
(* The scenarios.                                                          *)
(***************************************************************************)

\* C5 as stated: scenario 1 is reconstructed to ABCDEFGHIJKL.
C5_Scenario1Text ==
    file_object = Scenario1 /\ pc \in Terminal =>
        /\ pc = "done"
        /\ result = Text(<<"A", "B", "C", "D", "E", "F", "G", "H", "I", "J", "K", "L">>)

\* C5, amended: on scenario 1 reconstruct returns None; CDEFGH and GHIJKL share two
\* tokens only, so GHIJKL has no match and stays outside the chain.
C5_Scenario1None ==
    file_object = Scenario1 /\ pc \in Terminal =>
        /\ pc = "done"
        /\ result = NoResult
        /\ join_array[3].list = <<>>
        /\ join_array[1].list = <<>>
        /\ Len(join_array[2].list) = 1

C5_Witness == file_object = Scenario1 /\ pc = "done" /\ j = -1

\* C6 as stated: scenario 3 is reconstructed to the decoded text of AB%41CDE.
C6_Scenario3Text ==
    file_object = Scenario3 /\ pc \in Terminal =>
        /\ pc = "done"
        /\ result = Text(unquote_plus(<<"A", "B", "%", "4", "1", "C", "D", "E">>))

\* C6, amended: on scenario 3 the fragments are read as 4 and 5 tokens (%41 is one
\* token) and reconstruct returns None; the fragments share the one token C only,
\* so neither has a match and nothing is joined.
C6_Scenario3None ==
    file_object = Scenario3 =>
        /\ pc # "step1" =>
              /\ URLString_len(fragments[1]) = 4
              /\ URLString_len(fragments[2]) = 5
        /\ pc \in Terminal =>
              /\ pc = "done"
              /\ result = NoResult
              /\ \A x \in 1..2 : join_array[x].filled /\ join_array[x].list = <<>>

C6_Witness == file_object = Scenario3 /\ pc = "done" /\ stitchings = <<-1, -1>>

(***************************************************************************)
(* Round trip.                                                             *)
(***************************************************************************)

\* The last len tokens of a are the first len tokens of b.
OverlapAt(a, b, len) ==
    /\ len <= Len(a)
    /\ len <= Len(b)
    /\ SuffixFrom(a, Len(a) - len) = SubSeq(b, 1, len)

\* The fragments, taken in the order p with the overlaps ov, are a split of a text:
\* each starts and ends after the one before and shares ov tokens with it.
IsSplit(tok, p, ov) ==
    \A x \in 1..(n - 1) :
        /\ ov[x] < Len(tok[p[x]])
        /\ ov[x] < Len(tok[p[x + 1]])
        /\ OverlapAt(tok[p[x]], tok[p[x + 1]], ov[x])

\* No end of a fragment is the start of another fragment over MIN_OVERLAP tokens or
\* more, but where the split joins them.
NoOtherOverlap(tok, p, ov) ==
    \A a, b \in 1..n : \A len \in MIN_OVERLAP..Len(tok[a]) :
        a # b /\ OverlapAt(tok[a], tok[b], len) =>
            \E x \in 1..(n - 1) : a = p[x] /\ b = p[x + 1] /\ len = ov[x]

\* The text that is split.
RECURSIVE SourceText(_, _, _, _)
SourceText(tok, p, ov, x) ==
    IF x = 1 THEN tok[p[1]]
    ELSE SourceText(tok, p, ov, x - 1) \o SuffixFrom(tok[p[x]], ov[x - 1])

Orders == {p \in [1..n -> 1..n] : \A x, y \in 1..n : x # y => p[x] # p[y]}

\* C1: whenever the fragments are, in some order, a split of a text into two or more
\* fragments with every adjacent pair sharing at least MIN_OVERLAP tokens and no
\* other overlap of MIN_OVERLAP tokens or more between two fragments, reconstruct
\* returns the decoded text.
C1_RoundTrip ==
    pc \in Terminal /\ n >= 2 =>
        LET tok == [x \in 1..n |-> TokensOf(fragments[x])]
        IN  \A p \in Orders : \A ov \in [1..(n - 1) -> MIN_OVERLAP..(MaxLen + 1)] :
                IsSplit(tok, p, ov) /\ NoOtherOverlap(tok, p, ov) =>
                    /\ pc = "done"
                    /\ result = Text(unquote_plus(Flatten(SourceText(tok, p, ov, n))))

\* Three fragments given out of order, one pair sharing an escape, have been put
\* back together.
C1_Witness ==
    /\ pc = "done"
    /\ n = 3
    /\ LET tok == [x \in 1..n |-> TokensOf(fragments[x])]
       IN  \E p \in Orders : \E ov \in [1..(n - 1) -> MIN_OVERLAP..(MaxLen + 1)] :
               /\ IsSplit(tok, p, ov)
               /\ NoOtherOverlap(tok, p, ov)
               /\ p[1] = 3
               /\ p[2] = 1
               /\ \E x \in 1..Len(tok[1]) : tok[1][x] = <<"%", "4", "1">>

====
